---- MODULE Spec2Model ----
(***************************************************************************)
(* State-machine model of the kamelkross storefront client:                *)
(*   - Cart      (src/js/cart.js): the line-item collection, its durable   *)
(*                localStorage slot and the header counter badge;          *)
(*   - Products  (src/js/products.js): the catalog loader.                 *)
(* Every handler is one action; JavaScript values are modelled by what the *)
(* engine does with them (property reads of missing keys give undefined,   *)
(* JSON.stringify drops undefined-valued keys, JSON.parse may throw).      *)
(***************************************************************************)
EXTENDS Integers, Sequences, FiniteSets, TLC

VARIABLES
    items,      \* Cart.items: the in-memory JavaScript value
    storage,    \* localStorage slot 'kamelkross_cart'
    cartCount,  \* textContent of the .cart-count badge
    toast,      \* UI.toast message of the last call: <<name, text>>, <<>> if none
    result,     \* outcome of the last Cart call (op, threw, writeFailed, ret)
    unsaved,    \* TRUE while a mutation's storage write has failed and not been redone
    phase,      \* "constructed" before DOMContentLoaded, "ready" after Cart.init()
    productsItems,  \* Products.items
    categories,     \* Products.categories
    loaded,         \* Products.loaded
    calls,          \* the calls of Products.fetch(): where each stands, what it saw
    requests,       \* network requests issued so far
    csvInput,       \* the text handed to the CSV parser
    parsed,         \* what the CSV parser returned for it
    tabs,           \* two browser tabs over the one slot: each tab's own Cart
    tabLog          \* the last Cart call made in either tab

cartVars == <<items, storage, cartCount, toast, result, unsaved, phase>>
productsVars == <<productsItems, categories, loaded, calls, requests>>
parserVars == <<csvInput, parsed>>
tabVars == <<tabs, tabLog>>
vars == <<cartVars, productsVars, parserVars, tabVars>>

(***************************************************************************)
(* Bounds of the model                                                     *)
(***************************************************************************)
MaxLines == 2   \* most line items the cart is grown to
MaxQty == 1     \* largest line quantity explored (the smallest is 0)
MaxCalls == 3   \* calls of Products.fetch() in one session
MaxLineLen == 4 \* longest line handed to parseCSVLine on its own
MaxFeedLines == 3 \* most lines after the header in a feed handed to parseCSV
MaxUrlLen == 4  \* most symbols after the host in a reference handed to the image resolver

(***************************************************************************)
(* JavaScript values                                                       *)
(***************************************************************************)
\* the value `undefined`, as read from a key an object does not have
undefined == "undefined"

\* obj[k] as JavaScript reads it: undefined when the object has no such key
Prop(obj, k) == IF k \in DOMAIN obj THEN obj[k] ELSE undefined

\* keys of a line item holding numbers (never undefined in this model)
NumKeys == {"price", "shipping", "quantity"}

\* an array value, and the non-array values JSON.parse can return
Arr(seq) == [type |-> "array", arr |-> seq]
NonArray(t) == [type |-> t, arr |-> <<>>]
IsArray(v) == v.type = "array"

(***************************************************************************)
(* Inputs: product objects and option choices handed to Cart.add           *)
(***************************************************************************)
\* a catalog product with every column present
pTee == [id |-> "tshirt-001", name |-> "Classic Logo Tee", price |-> 450,
         shipping |-> 75, image |-> "tee.jpg", category |-> "T-Shirts"]
\* a feed product whose sheet has no shipping, image or category column
pCap == [id |-> "cap-001", name |-> "Signature Snapback", price |-> 350]

\* (product, size, color) choices: the second differs from the first in its
\* size alone, the third in its product alone
AddInputs == { <<pTee, "M", "Black">>, <<pTee, "L", "Black">>, <<pCap, "M", "Black">> }

\* the first product as the catalog carries it later: same id, every other
\* value changed
pTeeRepriced == [id |-> "tshirt-001", name |-> "Classic Logo Tee II", price |-> 500,
                 shipping |-> 90, image |-> "tee2.jpg", category |-> "Sale"]

\* the changed product is handed to add once the cart has a line of its triple
RepricedInputs(v) ==
    {in \in {<<pTeeRepriced, "M", "Black">>} :
        \E i \in 1 .. Len(v.arr) :
            /\ Prop(v.arr[i], "id") = in[1].id
            /\ Prop(v.arr[i], "size") = in[2]
            /\ Prop(v.arr[i], "color") = in[3]}

\* quantity arguments passed to add and updateQuantity: negative, zero, positive
QtyArgs == (0 - 1) .. MaxQty

\* index arguments passed to remove and updateQuantity: from one below the
\* first line to one past the last
IndexArgs(v) == (0 - 1) .. Len(v.arr)

\* line quantities kept within the explored range: add rejects no quantity,
\* so a line of quantity 0 is explored; lines below 0 are not
InRange(q) == q >= 0 /\ q <= MaxQty

(***************************************************************************)
(* JSON.stringify / JSON.parse and the localStorage slot                   *)
(***************************************************************************)
\* slot contents: no entry, the empty string, text that is not JSON, JSON text
absent == [kind |-> "absent", type |-> "-", arr |-> <<>>]
emptyText == [kind |-> "empty", type |-> "-", arr |-> <<>>]
garbage == [kind |-> "garbage", type |-> "-", arr |-> <<>>]
JSONText(type, seq) == [kind |-> "json", type |-> type, arr |-> seq]

\* JSON.stringify of one object: keys whose value is undefined are left out
StringifyObject(obj) ==
    [k \in {x \in DOMAIN obj : x \in NumKeys \/ obj[x] # undefined} |-> obj[k]]

\* JSON.stringify(this.items)
JSONstringify(v) ==
    JSONText(v.type, [i \in 1 .. Len(v.arr) |-> StringifyObject(v.arr[i])])

\* JSON.parse(saved): throws SyntaxError on text that is not JSON
JSONparse(text) ==
    IF text.kind = "json"
    THEN [threw |-> FALSE, value |-> [type |-> text.type, arr |-> text.arr]]
    ELSE [threw |-> TRUE, value |-> NonArray("null")]

\* what the slot may hold when the page is opened
SlotContents ==
    { absent, emptyText, garbage, JSONText("null", <<>>), JSONText("number", <<>>),
      JSONText("object", <<>>), JSONText("array", <<>>) }

(***************************************************************************)
(* Cart: derived values                                                    *)
(***************************************************************************)
RECURSIVE Reduce(_, _, _)
\* arr.reduce((total, item) => total + item[k1] * item[k2], 0); k2 = "" for no factor
Reduce(arr, k1, k2) ==
    IF arr = <<>> THEN 0
    ELSE Reduce(SubSeq(arr, 1, Len(arr) - 1), k1, k2)
         + (IF k2 = "" THEN arr[Len(arr)][k1] ELSE arr[Len(arr)][k1] * arr[Len(arr)][k2])

\* a call on this.items that is a TypeError unless items is an array
ArrayCall(v, value) == [threw |-> ~IsArray(v), value |-> IF IsArray(v) THEN value ELSE 0]

getItemCount(v) == ArrayCall(v, Reduce(v.arr, "quantity", ""))
getSubtotal(v) == ArrayCall(v, Reduce(v.arr, "price", "quantity"))
getShipping(v) == ArrayCall(v, Reduce(v.arr, "shipping", "quantity"))
\* getTotal() returning the subtotal alone
getTotal_subtotalOnly(v) ==
    [threw |-> getSubtotal(v).threw \/ getShipping(v).threw,
     value |-> getSubtotal(v).value]

\* getTotal()
getTotal(v) ==
    [threw |-> getSubtotal(v).threw \/ getShipping(v).threw,
     value |-> getSubtotal(v).value + getShipping(v).value]

\* this.items.length === 0: reading .length of null throws, of a number or
\* an object gives undefined
isEmpty(v) ==
    [threw |-> v.type = "null", value |-> IsArray(v) /\ Len(v.arr) = 0]

\* updateCartCount: the badge gets getItemCount() unless that call throws
updateCartCount(v, cnt) ==
    LET n == getItemCount(v)
    IN [threw |-> n.threw, count |-> IF n.threw THEN cnt ELSE n.value]

(***************************************************************************)
(* Cart: load and save                                                     *)
(***************************************************************************)
\* load() with the ternary inverted: saved ? [] : JSON.parse(saved)
load_invertedTernary(v, st, readOk) ==
    [threw |-> FALSE, items |-> Arr(<<>>)]

\* load() without its try/catch: a failed read or parse raises, items keep their value
load_noCatch(v, st, readOk) ==
    IF ~readOk THEN [threw |-> TRUE, items |-> v]
    ELSE IF st.kind \in {"absent", "empty"} THEN [threw |-> FALSE, items |-> Arr(<<>>)]
    ELSE IF JSONparse(st).threw THEN [threw |-> TRUE, items |-> v]
    ELSE [threw |-> FALSE, items |-> JSONparse(st).value]

\* load(): readOk = FALSE is localStorage.getItem throwing; both that and a
\* JSON.parse error end in the catch, which sets this.items = []
load(v, st, readOk) ==
    [threw |-> FALSE,
     items |-> IF ~readOk THEN Arr(<<>>)
               ELSE IF st.kind \in {"absent", "empty"} THEN Arr(<<>>)
               ELSE IF JSONparse(st).threw THEN Arr(<<>>)
               ELSE JSONparse(st).value]

\* save() without its try/catch: the setItem error reaches the caller
save_noCatch(v, st, cnt, writeOk) ==
    IF writeOk
    THEN [storage |-> JSONstringify(v), count |-> updateCartCount(v, cnt).count,
          threw |-> FALSE, writeFailed |-> FALSE]
    ELSE [storage |-> st, count |-> cnt, threw |-> TRUE, writeFailed |-> TRUE]

\* save() that keeps the lines of the slot it does not hold itself: the slot is
\* read again and merged before it is written
save_mergeSlot(v, st, cnt, writeOk) ==
    IF writeOk
    THEN [storage |->
             JSONText(v.type,
                      SelectSeq(st.arr,
                                LAMBDA line :
                                    \A i \in 1 .. Len(v.arr) :
                                        <<Prop(v.arr[i], "id"), Prop(v.arr[i], "size"),
                                          Prop(v.arr[i], "color")>>
                                        # <<Prop(line, "id"), Prop(line, "size"),
                                             Prop(line, "color")>>)
                      \o JSONstringify(v).arr),
          count |-> updateCartCount(v, cnt).count,
          threw |-> FALSE, writeFailed |-> FALSE]
    ELSE [storage |-> st, count |-> cnt, threw |-> FALSE, writeFailed |-> TRUE]

\* save(): writeOk = FALSE is localStorage.setItem throwing; the catch swallows it
save(v, st, cnt, writeOk) ==
    IF writeOk
    THEN [storage |-> JSONstringify(v), count |-> updateCartCount(v, cnt).count,
          threw |-> FALSE, writeFailed |-> FALSE]
    ELSE [storage |-> st, count |-> cnt, threw |-> FALSE, writeFailed |-> TRUE]

\* the record kept of the last call
\* threw: the call raised to its caller; readFailed / writeFailed: getItem /
\* setItem threw during it; applied: it took its mutating branch;
\* ret: <<line>> returned by add
Res(op, threw, readFailed, writeFailed, applied, ret) ==
    [op |-> op, threw |-> threw, readFailed |-> readFailed,
     writeFailed |-> writeFailed, applied |-> applied, ret |-> ret]

NoCall == Res("none", FALSE, FALSE, FALSE, FALSE, <<>>)

(***************************************************************************)
(* Initial state: the module has been evaluated, DOMContentLoaded not yet  *)
(***************************************************************************)
CartInitState ==
    /\ items = Arr(<<>>)
    /\ storage \in SlotContents
    /\ cartCount = 0
    /\ toast = <<>>
    /\ result = NoCall
    /\ unsaved = FALSE
    /\ phase = "constructed"

\* Cart.init(), the DOMContentLoaded handler
CartInit ==
    /\ phase = "constructed"
    /\ \E readOk \in BOOLEAN :
       \E ld \in {load(items, storage, readOk)} :
         /\ items' = ld.items
         /\ cartCount' = IF ld.threw THEN cartCount
                         ELSE updateCartCount(ld.items, cartCount).count
         /\ result' = Res("init", ld.threw \/ updateCartCount(ld.items, cartCount).threw,
                          ~readOk, FALSE, FALSE, <<>>)
    /\ phase' = "ready"
    /\ toast' = <<>>
    /\ unsaved' = FALSE
    /\ UNCHANGED <<storage, productsVars, parserVars, tabVars>>

(***************************************************************************)
(* Cart: the mutating operations, as functions of the state they read      *)
(***************************************************************************)
\* what a call leaves behind
Outcome(v, st, cnt, tst, threw, writeFailed, applied, ret) ==
    [items |-> v, storage |-> st, count |-> cnt, toast |-> tst, threw |-> threw,
     writeFailed |-> writeFailed, applied |-> applied, ret |-> ret]

\* a call that changes nothing: a no-op, or a TypeError before any change
Untouched(v, st, cnt, threw) == Outcome(v, st, cnt, <<>>, threw, FALSE, FALSE, <<>>)

\* what follows this.save() in add and remove: the toast and the return value,
\* reached only if save() returned
AfterSave(after, sv, tst, ret) ==
    IF sv.threw
    THEN Outcome(after, sv.storage, sv.count, <<>>, TRUE, sv.writeFailed, TRUE, <<>>)
    ELSE Outcome(after, sv.storage, sv.count, tst, FALSE, sv.writeFailed, TRUE, ret)

\* findIndex with item.size compared to the color argument: never a match
findIndex_sizeTypo(arr, product, size, color) ==
    LET hits == {i \in 1 .. Len(arr) :
                   /\ Prop(arr[i], "id") = product.id
                   /\ Prop(arr[i], "size") = color
                   /\ Prop(arr[i], "color") = color}
    IN IF hits = {} THEN 0 - 1
       ELSE (CHOOSE i \in hits : \A j \in hits : i <= j) - 1

\* this.items.findIndex(item => item.id === product.id && item.size === size
\*                              && item.color === color), zero-based, -1 if none
findIndex(arr, product, size, color) ==
    LET hits == {i \in 1 .. Len(arr) :
                   /\ Prop(arr[i], "id") = product.id
                   /\ Prop(arr[i], "size") = size
                   /\ Prop(arr[i], "color") = color}
    IN IF hits = {} THEN 0 - 1
       ELSE (CHOOSE i \in hits : \A j \in hits : i <= j) - 1

\* the cartItem literal of add; product.shipping || 0
cartItem(product, size, color, quantity) ==
    [id |-> product.id, name |-> product.name, price |-> product.price,
     shipping |-> IF "shipping" \in DOMAIN product THEN product.shipping ELSE 0,
     image |-> Prop(product, "image"), size |-> size, color |-> color,
     quantity |-> quantity, category |-> Prop(product, "category")]

\* add's if branch rebuilding the line from the product passed now
addToItems_refreshSnapshot(arr, product, size, color, quantity) ==
    LET existingIndex == findIndex(arr, product, size, color)
    IN IF existingIndex >= 0
       THEN [arr EXCEPT ![existingIndex + 1] =
                cartItem(product, size, color, @.quantity + quantity)]
       ELSE Append(arr, cartItem(product, size, color, quantity))

\* the array after add's if/else
addToItems(arr, product, size, color, quantity) ==
    LET existingIndex == findIndex(arr, product, size, color)
    IN IF existingIndex >= 0
       THEN [arr EXCEPT ![existingIndex + 1].quantity = @ + quantity]
       ELSE Append(arr, cartItem(product, size, color, quantity))

\* add(product, size, color, quantity)
add(v, st, cnt, product, size, color, quantity, writeOk) ==
    IF ~IsArray(v) THEN Untouched(v, st, cnt, TRUE)
    ELSE LET existingIndex == findIndex(v.arr, product, size, color)
             after == addToItems(v.arr, product, size, color, quantity)
             sv == save(Arr(after), st, cnt, writeOk)
         IN AfterSave(Arr(after), sv, <<product.name, "added to cart">>,
                      <<after[IF existingIndex >= 0 THEN existingIndex + 1
                              ELSE Len(after)]>>)

\* the array without its element at zero-based index
Splice(arr, index) == SubSeq(arr, 1, index) \o SubSeq(arr, index + 2, Len(arr))

\* index >= 0 && index < this.items.length
\* (.length of null throws; of a number or an object it is undefined)
InBounds(v, index) ==
    [threw |-> index >= 0 /\ v.type = "null",
     value |-> index >= 0 /\ IsArray(v) /\ index < Len(v.arr)]

\* remove(index)
remove(v, st, cnt, index, writeOk) ==
    IF InBounds(v, index).threw THEN Untouched(v, st, cnt, TRUE)
    ELSE IF ~InBounds(v, index).value THEN Untouched(v, st, cnt, FALSE)
    ELSE LET item == v.arr[index + 1]
             after == Arr(Splice(v.arr, index))
             sv == save(after, st, cnt, writeOk)
         IN AfterSave(after, sv, <<Prop(item, "name"), "removed from cart">>, <<>>)

\* updateQuantity whose else branch forgets this.save()
updateQuantity_noSave(v, st, cnt, index, quantity, writeOk) ==
    IF InBounds(v, index).threw THEN Untouched(v, st, cnt, TRUE)
    ELSE IF ~InBounds(v, index).value THEN Untouched(v, st, cnt, FALSE)
    ELSE IF quantity <= 0 THEN remove(v, st, cnt, index, writeOk)
    ELSE Outcome(Arr([v.arr EXCEPT ![index + 1].quantity = quantity]), st, cnt, <<>>,
                 FALSE, FALSE, TRUE, <<>>)

\* updateQuantity that removes below zero only: quantity < 0
updateQuantity_zeroKept(v, st, cnt, index, quantity, writeOk) ==
    IF InBounds(v, index).threw THEN Untouched(v, st, cnt, TRUE)
    ELSE IF ~InBounds(v, index).value THEN Untouched(v, st, cnt, FALSE)
    ELSE IF quantity < 0 THEN remove(v, st, cnt, index, writeOk)
    ELSE LET after == Arr([v.arr EXCEPT ![index + 1].quantity = quantity])
             sv == save(after, st, cnt, writeOk)
         IN AfterSave(after, sv, <<>>, <<>>)

\* updateQuantity without its bounds check: this.items[index].quantity = quantity
\* on a missing line is a TypeError
updateQuantity_noBoundsCheck(v, st, cnt, index, quantity, writeOk) ==
    IF quantity <= 0 THEN remove(v, st, cnt, index, writeOk)
    ELSE IF ~InBounds(v, index).value THEN Untouched(v, st, cnt, TRUE)
    ELSE LET after == Arr([v.arr EXCEPT ![index + 1].quantity = quantity])
             sv == save(after, st, cnt, writeOk)
         IN AfterSave(after, sv, <<>>, <<>>)

\* updateQuantity(index, quantity)
updateQuantity(v, st, cnt, index, quantity, writeOk) ==
    IF InBounds(v, index).threw THEN Untouched(v, st, cnt, TRUE)
    ELSE IF ~InBounds(v, index).value THEN Untouched(v, st, cnt, FALSE)
    ELSE IF quantity <= 0 THEN remove(v, st, cnt, index, writeOk)
    ELSE LET after == Arr([v.arr EXCEPT ![index + 1].quantity = quantity])
             sv == save(after, st, cnt, writeOk)
         IN AfterSave(after, sv, <<>>, <<>>)

\* clear()
clear(v, st, cnt, writeOk) ==
    LET sv == save(Arr(<<>>), st, cnt, writeOk)
    IN AfterSave(Arr(<<>>), sv, <<>>, <<>>)

\* prepareOrderData whose snapshot copies every key of the line: items.map(item => ({...item}))
prepareOrderData_wholeLine(v, customerInfo) ==
    [threw |-> ~IsArray(v),
     value |-> [customer |-> customerInfo,
                items |-> v.arr,
                subtotal |-> getSubtotal(v).value,
                shipping |-> getShipping(v).value,
                total |-> getTotal(v).value,
                currency |-> "ZAR"]]

\* prepareOrderData(customerInfo), without its timestamp
prepareOrderData(v, customerInfo) ==
    [threw |-> ~IsArray(v),
     value |-> [customer |-> customerInfo,
                items |-> [i \in 1 .. Len(v.arr) |->
                             [k \in {"id", "name", "size", "color", "quantity", "price"}
                                |-> Prop(v.arr[i], k)]],
                subtotal |-> getSubtotal(v).value,
                shipping |-> getShipping(v).value,
                total |-> getTotal(v).value,
                currency |-> "ZAR"]]

(***************************************************************************)
(* Cart: actions                                                           *)
(***************************************************************************)
\* the explored range: at most MaxLines lines, quantities within the range
Explored(v) ==
    /\ Len(v.arr) <= MaxLines
    /\ \A i \in 1 .. Len(v.arr) : InRange(v.arr[i].quantity)

\* the state after a call with outcome o; while a failed write is outstanding
\* the calls followed are those that write again
Apply(op, outcome) ==
    \E o \in {outcome} :
        /\ Explored(o.items)
        /\ unsaved => o.applied
        /\ items' = o.items
        /\ storage' = o.storage
        /\ cartCount' = o.count
        /\ toast' = o.toast
        /\ result' = Res(op, o.threw, FALSE, o.writeFailed, o.applied, o.ret)
        /\ unsaved' = IF o.applied THEN o.writeFailed ELSE unsaved
        /\ UNCHANGED <<phase, productsVars, parserVars, tabVars>>

\* a storage write is let fail only while no earlier failed write is outstanding
MayFail(writeOk) == writeOk \/ ~unsaved

CartAdd ==
    /\ phase = "ready"
    /\ \E in \in AddInputs \cup RepricedInputs(items), quantity \in QtyArgs,
          writeOk \in BOOLEAN :
         /\ MayFail(writeOk)
         /\ Apply("add", add(items, storage, cartCount, in[1], in[2], in[3],
                             quantity, writeOk))

CartRemove ==
    /\ phase = "ready"
    /\ \E index \in IndexArgs(items), writeOk \in BOOLEAN :
         /\ MayFail(writeOk)
         /\ Apply("remove", remove(items, storage, cartCount, index, writeOk))

CartUpdateQuantity ==
    /\ phase = "ready"
    /\ \E index \in IndexArgs(items), quantity \in QtyArgs, writeOk \in BOOLEAN :
         /\ MayFail(writeOk)
         /\ Apply("updateQuantity",
                  updateQuantity(items, storage, cartCount, index, quantity, writeOk))

CartClear ==
    /\ phase = "ready"
    /\ \E writeOk \in BOOLEAN :
         /\ MayFail(writeOk)
         /\ Apply("clear", clear(items, storage, cartCount, writeOk))

\* Cart.load() called on its own
CartLoad ==
    /\ phase = "ready"
    /\ \E readOk \in BOOLEAN :
       \E ld \in {load(items, storage, readOk)} :
         /\ items' = ld.items
         /\ result' = Res("load", ld.threw, ~readOk, FALSE, FALSE, <<>>)
    /\ toast' = <<>>
    /\ unsaved' = FALSE
    /\ UNCHANGED <<storage, cartCount, phase, productsVars, parserVars, tabVars>>

\* Cart.prepareOrderData(customerInfo): nothing of the cart is assigned; the
\* payload returned is kept in the record of the call
CartPrepareOrderData ==
    /\ phase = "ready"
    /\ ~unsaved
    /\ \E customerInfo \in {"customer"} :
       \E o \in {prepareOrderData(items, customerInfo)} :
         result' = Res("prepareOrderData", o.threw, FALSE, FALSE, FALSE,
                       IF o.threw THEN <<>> ELSE <<o.value>>)
    /\ toast' = <<>>
    /\ UNCHANGED <<items, storage, cartCount, unsaved, phase, productsVars, parserVars, tabVars>>

\* the page is opened again: a fresh script context over the same slot
PageReload ==
    /\ phase = "ready"
    /\ items' = Arr(<<>>)
    /\ cartCount' = 0
    /\ toast' = <<>>
    /\ result' = NoCall
    /\ unsaved' = FALSE
    /\ phase' = "constructed"
    /\ UNCHANGED <<storage, productsVars, parserVars, tabVars>>

Next ==
    \/ CartInit
    \/ CartAdd
    \/ CartRemove
    \/ CartUpdateQuantity
    \/ CartClear
    \/ CartLoad
    \/ CartPrepareOrderData
    \/ PageReload


(***************************************************************************)
(* Products: text.  A string is a sequence of symbols; a symbol is one of  *)
(* the characters the code looks at (comma, double quote, newline, blank,  *)
(* carriage return, underscore) or a run of other characters kept whole.   *)
(***************************************************************************)
NL == "\n"
COMMA == ","
QUOTE == "\""
SP == " "
CR == "\r"

IsSpace(c) == c \in {SP, NL, CR}

RECURSIVE TrimStart(_)
TrimStart(str) ==
    IF str # <<>> /\ IsSpace(Head(str)) THEN TrimStart(Tail(str)) ELSE str

RECURSIVE TrimEnd(_)
TrimEnd(str) ==
    IF str # <<>> /\ IsSpace(str[Len(str)])
    THEN TrimEnd(SubSeq(str, 1, Len(str) - 1)) ELSE str

\* str.trim()
Trim(str) == TrimEnd(TrimStart(str))

RECURSIVE Split(_, _)
\* str.split(sep) for a one-character separator
Split(str, sep) ==
    IF \A i \in 1 .. Len(str) : str[i] # sep THEN <<str>>
    ELSE LET k == CHOOSE i \in 1 .. Len(str) :
                     str[i] = sep /\ \A j \in 1 .. i - 1 : str[j] # sep
         IN <<SubSeq(str, 1, k - 1)>> \o Split(SubSeq(str, k + 1, Len(str)), sep)

\* arr.filter(keep) for a set of kept values given as a predicate on elements
RECURSIVE FilterNonEmpty(_)
FilterNonEmpty(arr) ==
    IF arr = <<>> THEN <<>>
    ELSE (IF Head(arr) # <<>> THEN <<Head(arr)>> ELSE <<>>) \o FilterNonEmpty(Tail(arr))

\* arr.map(v => v.trim())
MapTrim(arr) == [i \in 1 .. Len(arr) |-> Trim(arr[i])]

\* toLowerCase() of one symbol: the words of the model that have capitals
LowerSymbol(c) ==
    CASE c = "ID" -> "id"
      [] c = "Name" -> "name"
      [] c = "Price" -> "price"
      [] c = "In" -> "in"
      [] c = "Stock" -> "stock"
      [] c = "Yes" -> "yes"
      [] c = "TRUE" -> "true"
      [] OTHER -> c

\* str.toLowerCase()
ToLowerCase(str) == [i \in 1 .. Len(str) |-> LowerSymbol(str[i])]

RECURSIVE ReplaceSpaces(_)
\* str.replace(/\s+/g, '_')
ReplaceSpaces(str) ==
    IF str = <<>> THEN <<>>
    ELSE IF IsSpace(Head(str)) THEN <<"_">> \o ReplaceSpaces(TrimStart(str))
    ELSE <<Head(str)>> \o ReplaceSpaces(Tail(str))

\* the numerals of the model and the numbers they denote
Numerals == {"0", "75", "350", "450"}
NumberOf(c) ==
    CASE c = "0" -> 0
      [] c = "75" -> 75
      [] c = "350" -> 350
      [] c = "450" -> 450

\* parseFloat(str) || 0: the number a leading numeral denotes, 0 (from NaN)
\* when the text does not start with one
ParseFloatOrZero(str) ==
    IF TrimStart(str) # <<>> /\ Head(TrimStart(str)) \in Numerals
    THEN NumberOf(Head(TrimStart(str))) ELSE 0

(***************************************************************************)
(* Products: the CSV parser                                                *)
(***************************************************************************)
\* a string of one symbol
Str(c) == <<c>>

\* the column names the code treats specially
K_id == Str("id")
K_name == Str("name")
K_price == Str("price")
K_shipping == Str("shipping")
K_category == Str("category")
K_in_stock == <<"in", "_", "stock">>
K_featured == Str("featured")
ListKeys == {Str("sizes"), Str("colors"), Str("images")}

RECURSIVE Scan(_, _, _, _, _)
\* the loop of parseCSVLine from position i on
Scan(line, i, values, current, inQuotes) ==
    IF i > Len(line) THEN Append(values, Trim(current))
    ELSE IF line[i] = QUOTE THEN Scan(line, i + 1, values, current, ~inQuotes)
    ELSE IF line[i] = COMMA /\ ~inQuotes
         THEN Scan(line, i + 1, Append(values, Trim(current)), <<>>, inQuotes)
    ELSE Scan(line, i + 1, values, Append(current, line[i]), inQuotes)

\* parseCSVLine as line.split(',') with each piece trimmed: quotes are not looked at
parseCSVLine_splitOnly(line) == MapTrim(Split(line, COMMA))

\* parseCSVLine(line)
parseCSVLine(line) == Scan(line, 1, <<>>, <<>>, FALSE)

RECURSIVE FilterNonBlank(_)
\* lines.filter(line => line.trim())
FilterNonBlank(lines) ==
    IF lines = <<>> THEN <<>>
    ELSE (IF Trim(Head(lines)) # <<>> THEN <<Head(lines)>> ELSE <<>>)
         \o FilterNonBlank(Tail(lines))

\* the typed value with the flags compared as written, without toLowerCase()
Coerce_noLowerCase(header, value) ==
    IF header \in {K_price, K_shipping} THEN ParseFloatOrZero(value)
    ELSE IF header \in ListKeys THEN FilterNonEmpty(MapTrim(Split(value, COMMA)))
    ELSE IF header \in {K_in_stock, K_featured}
         THEN value = Str("yes") \/ value = Str("true") \/ value = Str("1")
    ELSE value

\* the typed value stored under a header
Coerce(header, value) ==
    IF header \in {K_price, K_shipping} THEN ParseFloatOrZero(value)
    ELSE IF header \in ListKeys THEN FilterNonEmpty(MapTrim(Split(value, COMMA)))
    ELSE IF header \in {K_in_stock, K_featured}
         THEN \/ ToLowerCase(value) = Str("yes")
              \/ ToLowerCase(value) = Str("true")
              \/ value = Str("1")
    ELSE value

\* the product object given keys only for the columns the data line has a
\* value for: values.forEach in place of headers.forEach
RowProduct_valuesOnly(headers, values) ==
    [h \in {headers[i] : i \in 1 .. (IF Len(values) < Len(headers) THEN Len(values)
                                      ELSE Len(headers))} |->
        LET index == CHOOSE i \in 1 .. Len(headers) :
                        headers[i] = h /\ \A j \in i + 1 .. Len(headers) : headers[j] # h
        IN Coerce(h, IF index <= Len(values) THEN values[index] ELSE <<>>)]

\* the product object built from one data line: headers.forEach assigns
\* product[header], a later column of the same name overwriting an earlier one
RowProduct(headers, values) ==
    [h \in {headers[i] : i \in 1 .. Len(headers)} |->
        LET index == CHOOSE i \in 1 .. Len(headers) :
                        headers[i] = h /\ \A j \in i + 1 .. Len(headers) : headers[j] # h
        IN Coerce(h, IF index <= Len(values) THEN values[index] ELSE <<>>)]

\* product.id && product.name && product.price
Accepted(product) ==
    /\ K_id \in DOMAIN product /\ product[K_id] # <<>>
    /\ K_name \in DOMAIN product /\ product[K_name] # <<>>
    /\ K_price \in DOMAIN product /\ product[K_price] # 0

RECURSIVE Rows(_, _, _)
\* the for loop of parseCSV from line i on
Rows(headers, lines, i) ==
    IF i > Len(lines) THEN <<>>
    ELSE LET product == RowProduct(headers, parseCSVLine(lines[i]))
         IN (IF Accepted(product) THEN <<product>> ELSE <<>>)
            \o Rows(headers, lines, i + 1)

\* parseCSV(csv)
parseCSV(csv) ==
    LET lines == FilterNonBlank(Split(csv, NL))
        cells == parseCSVLine(lines[1])
        headers == [i \in 1 .. Len(cells) |->
                      ReplaceSpaces(Trim(ToLowerCase(cells[i])))]
    IN IF Len(lines) < 2 THEN <<>> ELSE Rows(headers, lines, 2)

RECURSIVE extractCategories(_)
\* extractCategories(): the truthy categories of this.items, each once, in
\* order of first appearance
extractCategories(products) ==
    IF products = <<>> THEN <<>>
    ELSE LET before == extractCategories(SubSeq(products, 1, Len(products) - 1))
             last == products[Len(products)]
         IN IF /\ K_category \in DOMAIN last
               /\ last[K_category] # <<>>
               /\ \A i \in 1 .. Len(before) : before[i] # last[K_category]
            THEN Append(before, last[K_category])
            ELSE before

\* one object of getDemoProducts()
Demo(id, name, description, price, shipping, category, sizes, colors, image, featured) ==
    (K_id :> Str(id)) @@ (K_name :> Str(name)) @@ (Str("description") :> Str(description))
    @@ (K_price :> price) @@ (K_shipping :> shipping) @@ (K_category :> Str(category))
    @@ (Str("sizes") :> sizes) @@ (Str("colors") :> colors) @@ (Str("image") :> Str(image))
    @@ (Str("images") :> <<Str(image)>>) @@ (K_in_stock :> TRUE) @@ (K_featured :> featured)

\* getDemoProducts()
getDemoProducts ==
    << Demo("tshirt-001", "Classic Logo Tee",
            "Premium cotton t-shirt featuring the iconic Kamel Kross logo. Comfortable fit with high-quality screen printing.",
            450, 75, "T-Shirts",
            <<Str("S"), Str("M"), Str("L"), Str("XL"), Str("XXL")>>,
            <<Str("Black"), Str("White"), Str("Navy")>>,
            "https://images.unsplash.com/photo-1521572163474-6864f9cf17ab?w=600", TRUE),
       Demo("tshirt-002", "Urban Streetwear Tee",
            "Bold streetwear design on soft-touch fabric. Stand out with this statement piece.",
            550, 75, "T-Shirts",
            <<Str("S"), Str("M"), Str("L"), Str("XL")>>,
            <<Str("Black"), Str("Grey")>>,
            "https://images.unsplash.com/photo-1503341504253-dff4815485f1?w=600", TRUE),
       Demo("tshirt-003", "Limited Edition Graphic Tee",
            "Exclusive limited edition design. Premium heavyweight cotton.",
            650, 75, "T-Shirts",
            <<Str("M"), Str("L"), Str("XL")>>,
            <<Str("Black")>>,
            "https://images.unsplash.com/photo-1583743814966-8936f5b7be1a?w=600", TRUE),
       Demo("cap-001", "Signature Snapback",
            "Adjustable snapback cap with embroidered Kamel Kross logo. One size fits most.",
            350, 50, "Caps",
            <<Str("One Size")>>,
            <<Str("Black"), Str("Navy"), Str("Khaki")>>,
            "https://images.unsplash.com/photo-1588850561407-ed78c282e89b?w=600", TRUE),
       Demo("cap-002", "Dad Cap - Minimal",
            "Relaxed fit dad cap with subtle branding. Curved brim, adjustable strap.",
            299, 50, "Caps",
            <<Str("One Size")>>,
            <<Str("Black"), Str("White"), Str("Olive")>>,
            "https://images.unsplash.com/photo-1521369909029-2afed882baee?w=600", TRUE),
       Demo("cap-003", "Trucker Cap",
            "Classic trucker style with mesh back. Perfect for sunny days.",
            320, 50, "Caps",
            <<Str("One Size")>>,
            <<Str("Black/White"), Str("Navy/White")>>,
            "https://images.unsplash.com/photo-1534215754734-18e55d13e346?w=600", FALSE) >>

(***************************************************************************)
(* Products.fetch(): one call runs from its start to the first await, from *)
(* the settled request to the second await, and from the settled body to   *)
(* its return                                                              *)
(***************************************************************************)
\* a feed of two products, the second with a quoted name holding a comma
FeedTwo ==
    << "ID", COMMA, "Name", COMMA, "Price", COMMA, "category", NL,
       "a1", COMMA, "Tee", COMMA, "450", COMMA, "T-Shirts", CR, NL,
       SP, NL,
       "a2", COMMA, QUOTE, "Cap", COMMA, SP, "black", QUOTE, COMMA, "350", COMMA, "Caps" >>
\* a feed of one product, after a row that has no price
FeedOne ==
    << "id", COMMA, "name", COMMA, "price", COMMA, "In", SP, "Stock", NL,
       "b1", COMMA, "Hat", COMMA, COMMA, "Yes", NL,
       "b2", COMMA, "Tee", COMMA, "75", COMMA, "TRUE" >>
\* a feed that is a header row alone
FeedHeader == << "id", COMMA, "name", COMMA, "price" >>

Feeds == {FeedTwo, FeedOne, FeedHeader}

Calls == 1 .. MaxCalls

\* a call that has not started
IdleCall ==
    [pc |-> "idle", cached |-> FALSE, response |-> "none", text |-> "none",
     body |-> <<>>, rejected |-> FALSE, ret |-> <<>>]

ProductsInitState ==
    /\ productsItems = <<>>
    /\ categories = <<>>
    /\ loaded = FALSE
    /\ calls = [c \in Calls |-> IdleCall]
    /\ requests = 0

\* if (this.loaded && this.items.length > 0)
CacheHit == loaded /\ Len(productsItems) > 0

\* the response was answered with a failure status and the check of
\* response.ok is missing: the body is read
afterFetch_noOkCheck(outcome) ==
    IF outcome = "error" THEN "catch" ELSE "awaitText"

\* where the call goes once the request has settled: a rejected request and a
\* response that is not ok both end in the catch block
afterFetch(outcome) ==
    IF outcome = "error" THEN "catch"
    ELSE IF outcome = "notOk" THEN "catch"
    ELSE "awaitText"

\* the catch block, for a call whose record is call: the demo products are
\* installed and returned
CatchBlock(c, call) ==
    /\ productsItems' = getDemoProducts
    /\ categories' = extractCategories(getDemoProducts)
    /\ calls' = [calls EXCEPT ![c] = [call EXCEPT !.pc = "done",
                                                  !.ret = getDemoProducts]]
    /\ UNCHANGED <<loaded, requests>>

\* fetch() is called: the cached list is returned, or a request is issued
FetchCall(c) ==
    /\ calls[c].pc = "idle"
    /\ \A d \in 1 .. c - 1 : calls[d].pc # "idle"
    /\ IF CacheHit
       THEN /\ calls' = [calls EXCEPT ![c].pc = "done", ![c].cached = TRUE,
                                      ![c].ret = productsItems]
            /\ UNCHANGED <<productsItems, categories, loaded, requests>>
       ELSE /\ calls' = [calls EXCEPT ![c].pc = "awaitFetch"]
            /\ requests' = requests + 1
            /\ UNCHANGED <<productsItems, categories, loaded>>
    /\ UNCHANGED <<cartVars, parserVars, tabVars>>

\* the request settles: rejected, answered with a failure status, or answered ok
FetchSettled(c) ==
    /\ calls[c].pc = "awaitFetch"
    /\ \E outcome \in {"error", "notOk", "ok"} :
         IF afterFetch(outcome) = "catch"
         THEN CatchBlock(c, [calls[c] EXCEPT !.response = outcome])
         ELSE /\ calls' = [calls EXCEPT ![c].pc = "awaitText", ![c].response = outcome]
              /\ UNCHANGED <<productsItems, categories, loaded, requests>>
    /\ UNCHANGED <<cartVars, parserVars, tabVars>>

\* response.text() settles: rejected, or resolved with the body, which is
\* parsed, installed and returned
TextSettled(c) ==
    /\ calls[c].pc = "awaitText"
    /\ \/ CatchBlock(c, [calls[c] EXCEPT !.text = "error"])
       \/ \E csvText \in Feeds :
            /\ productsItems' = parseCSV(csvText)
            /\ categories' = extractCategories(productsItems')
            /\ loaded' = TRUE
            /\ calls' = [calls EXCEPT ![c].pc = "done", ![c].text = "read",
                                      ![c].body = csvText, ![c].ret = productsItems']
            /\ UNCHANGED requests
    /\ UNCHANGED <<cartVars, parserVars, tabVars>>

(***************************************************************************)
(* Products.convertGoogleDriveUrl.  A reference is a sequence of symbols:  *)
(* a host, then pieces of path and query kept whole where the regular      *)
(* expressions of the code cannot match inside them.                       *)
(***************************************************************************)
DriveHost == "https://drive.google.com"
OtherHost == "https://cdn.example.com"
FileD == "/file/d/"
SlashView == "/view"
SlashUc == "/uc"
QMark == "?"
Amp == "&"
IdEq == "id="
LetterU == "u"
FileId == "ABC123"

\* the symbols that hold a slash, and so end a run of [^\/]
SlashSymbols == {DriveHost, OtherHost, FileD, SlashView, SlashUc}
HasSlash(c) == c \in SlashSymbols

\* url.includes('drive.google.com')
IncludesDrive(url) == \E i \in 1 .. Len(url) : url[i] = DriveHost

RECURSIVE RunFrom(_, _, _)
\* the longest run of symbols from position i on that are not in stop: the
\* greedy classes [^\/]+ and [^&]+
RunFrom(url, i, stop) ==
    IF i > Len(url) \/ url[i] \in stop THEN <<>>
    ELSE <<url[i]>> \o RunFrom(url, i + 1, stop)

\* the result of url.match(re): whether it matched, and its first group
NoMatch == [matched |-> FALSE, group |-> <<>>]
Matched(group) == [matched |-> TRUE, group |-> group]

\* the smallest and the largest member of a non-empty set of positions
First(S) == CHOOSE i \in S : \A j \in S : i <= j
Last(S) == CHOOSE i \in S : \A j \in S : j <= i

\* url.match(/\/file\/d\/([^\/]+)/): the leftmost /file/d/ followed by a
\* character that is not a slash
fileMatch(url) ==
    LET at == {i \in 1 .. Len(url) - 1 : url[i] = FileD /\ ~HasSlash(url[i + 1])}
    IN IF at = {} THEN NoMatch
       ELSE Matched(RunFrom(url, First(at) + 1, SlashSymbols))

\* url.match(/[?&]id=([^&]+)/): the leftmost id= that follows ? or & and is
\* followed by a character that is not &
openMatch(url) ==
    LET at == {i \in 1 .. Len(url) - 2 :
                 url[i] \in {QMark, Amp} /\ url[i + 1] = IdEq /\ url[i + 2] # Amp}
    IN IF at = {} THEN NoMatch
       ELSE Matched(RunFrom(url, First(at) + 2, {Amp}))

\* url.match(/\/uc\?.*id=([^&]+)/): /uc? and, .* being greedy, the last id=
\* after it that is followed by a character that is not &
ucMatch(url) ==
    LET starts == {i \in 1 .. Len(url) - 1 : url[i] = SlashUc /\ url[i + 1] = QMark}
        at == {j \in 1 .. Len(url) - 1 :
                 /\ url[j] = IdEq /\ url[j + 1] # Amp
                 /\ \E i \in starts : j > i + 1}
    IN IF at = {} THEN NoMatch
       ELSE Matched(RunFrom(url, Last(at) + 1, {Amp}))

\* `https://drive.google.com/thumbnail?id=${fileId}&sz=w800`
Thumbnail(fileId) ==
    <<"https://drive.google.com/thumbnail?id=">> \o fileId \o <<"&sz=w800">>

\* the three assignments to fileId with the first match kept instead of the last
fileIdOf_firstWins(url) ==
    IF fileMatch(url).matched THEN fileMatch(url)
    ELSE IF openMatch(url).matched THEN openMatch(url)
    ELSE ucMatch(url)

\* the three assignments to fileId in their order: a later match overwrites
\* an earlier one
fileIdOf(url) ==
    IF ucMatch(url).matched THEN ucMatch(url)
    ELSE IF openMatch(url).matched THEN openMatch(url)
    ELSE fileMatch(url)

\* convertGoogleDriveUrl(url) for a string url
convertGoogleDriveUrl(url) ==
    IF url = <<>> THEN [threw |-> FALSE, value |-> <<>>]
    ELSE IF ~IncludesDrive(url) THEN [threw |-> FALSE, value |-> url]
    ELSE IF fileIdOf(url).matched
         THEN [threw |-> FALSE, value |-> Thumbnail(fileIdOf(url).group)]
    ELSE [threw |-> FALSE, value |-> url]

(***************************************************************************)
(* The CSV parser on its own: a text is handed to parseCSVLine or to       *)
(* parseCSV and the value returned is kept                                 *)
(***************************************************************************)
\* nothing handed over, nothing returned
NoInput == [kind |-> "none", text |-> <<>>, row |-> <<>>]
NotParsed == [kind |-> "none", fields |-> <<>>, products |-> <<>>, url |-> <<>>]

ParserIdle == csvInput = NoInput /\ parsed = NotParsed

\* the lines handed to parseCSVLine: every text of at most maxLen symbols
\* out of a word, the comma, the double quote and the blank, and the line
\* a,"b,c",d
LineSymbols == {"a", COMMA, QUOTE, SP}
ExampleLine == <<"a", COMMA, QUOTE, "b", COMMA, "c", QUOTE, COMMA, "d">>
Lines(maxLen) == UNION {[1 .. n -> LineSymbols] : n \in 0 .. maxLen} \cup {ExampleLine}

\* the cells a data row is made of: absent or present id and name; a price
\* that is absent, zero, positive or not a number; flags as the sheet may
\* spell them
IdCells == {<<>>, Str("a1")}
NameCells == {<<>>, Str("Tee")}
PriceCells == {<<>>, Str("0"), Str("75"), Str("free")}
FlagCells ==
    { Str("Yes"), Str("TRUE"), Str("1"), Str("yes"), <<SP, "TRUE", SP>>,
      <<QUOTE, "Yes", QUOTE>>, <<>>, Str("no"), Str("2"), <<"yes", SP, "please">> }

RowCells == [id : IdCells, name : NameCells, price : PriceCells,
             stock : FlagCells, featured : FlagCells]

\* the sheet: its header row and one data row
SheetHeader ==
    << "ID", COMMA, "Name", COMMA, "Price", COMMA, "In", SP, "Stock", COMMA, "featured" >>
Sheet(row) ==
    SheetHeader \o <<CR, NL>> \o row.id \o <<COMMA>> \o row.name \o <<COMMA>>
    \o row.price \o <<COMMA>> \o row.stock \o <<COMMA>> \o row.featured \o <<NL>>

\* a listing: a header of five columns, then data rows and blank lines.  The
\* data rows carry id, name and a price: one with a value for every column,
\* one that stops after the price, one with two values too many
ListingHeader ==
    << "id", COMMA, "name", COMMA, "price", COMMA, "shipping", COMMA, "category" >>
RowFull == << "a1", COMMA, "Tee", COMMA, "450", COMMA, "75", COMMA, "T-Shirts" >>
RowShort == << "a2", COMMA, "Hat", COMMA, "350" >>
RowLong ==
    << "a3", COMMA, "Cap", COMMA, "75", COMMA, "0", COMMA, "Caps", COMMA, "extra",
       COMMA, "more", CR >>
DataRows == {RowFull, RowShort, RowLong}
BlankLines == {<<>>, <<SP, CR>>}

\* the lines after the header: at most maxLines, one data row at least
ListingLines(maxLines) ==
    {lines \in UNION {[1 .. n -> DataRows \cup BlankLines] : n \in 1 .. maxLines} :
        \E i \in 1 .. Len(lines) : lines[i] \in DataRows}

RECURSIVE JoinLines(_)
\* the lines, each ended by a newline but the last
JoinLines(lines) ==
    IF lines = <<>> THEN <<>>
    ELSE IF Len(lines) = 1 THEN lines[1]
    ELSE lines[1] \o <<NL>> \o JoinLines(Tail(lines))

Listing(lines) == ListingHeader \o <<NL>> \o JoinLines(lines)

\* the references handed to the image resolver: the empty string, and a host
\* followed by at most maxLen pieces of path and query
UrlSymbols == {FileD, SlashView, SlashUc, QMark, Amp, IdEq, LetterU, FileId}
Urls(maxLen) ==
    {<<>>} \cup
    {<<host>> \o tail :
        host \in {DriveHost, OtherHost},
        tail \in UNION {[1 .. n -> UrlSymbols] : n \in 0 .. maxLen}}

\* what the parser and the resolver are handed, for given bounds
ParserInputs(lineLen, feedLines, urlLen) ==
    {[kind |-> "url", text |-> url, row |-> <<>>] : url \in Urls(urlLen)} \cup
    {[kind |-> "line", text |-> line, row |-> <<>>] : line \in Lines(lineLen)}
    \cup {[kind |-> "csv", text |-> Sheet(row), row |-> row] : row \in RowCells}
    \cup {[kind |-> "listing", text |-> Listing(lines), row |-> lines] :
             lines \in ListingLines(feedLines)}

\* Products.parseCSVLine(line) is called
ParseLine ==
    /\ csvInput.kind = "line" /\ parsed = NotParsed
    /\ parsed' = [kind |-> "line", fields |-> parseCSVLine(csvInput.text),
                  products |-> <<>>, url |-> <<>>]
    /\ UNCHANGED <<csvInput, cartVars, productsVars, tabVars>>

\* Products.parseCSV(csv) is called
ParseSheet ==
    /\ csvInput.kind \in {"csv", "listing"} /\ parsed = NotParsed
    /\ parsed' = [kind |-> csvInput.kind, fields |-> <<>>,
                  products |-> parseCSV(csvInput.text), url |-> <<>>]
    /\ UNCHANGED <<csvInput, cartVars, productsVars, tabVars>>

\* Products.convertGoogleDriveUrl(url) is called
ResolveImage ==
    /\ csvInput.kind = "url" /\ parsed = NotParsed
    /\ \E o \in {convertGoogleDriveUrl(csvInput.text)} :
         parsed' = [kind |-> IF o.threw THEN "threw" ELSE "url", fields |-> <<>>,
                    products |-> <<>>, url |-> o.value]
    /\ UNCHANGED <<csvInput, cartVars, productsVars, tabVars>>

(***************************************************************************)
(* Two browser tabs: each tab runs its own copy of the script, with its    *)
(* own Cart.items, over the one localStorage slot.  Nothing in the code    *)
(* listens to the slot; a tab reads it in Cart.init() alone.               *)
(***************************************************************************)
Tabs == {"A", "B"}
Other(t) == IF t = "A" THEN "B" ELSE "A"

\* a tab whose page has not fired DOMContentLoaded yet.  synced: its last
\* mutation that took effect was written; wrote: it has written the slot
ClosedTab ==
    [items |-> Arr(<<>>), cartCount |-> 0, phase |-> "constructed",
     synced |-> FALSE, wrote |-> FALSE]

\* the last call: the tab it was made in, and whether it was a mutation that
\* took effect, returned and was written to the slot
NoTabCall == [last |-> "none", wrote |-> FALSE]

TabsIdle == tabs = [t \in Tabs |-> ClosedTab] /\ tabLog = NoTabCall

\* what the tabs are handed: add of one unit of two products, quantities 0
\* and 1 for updateQuantity
TabAddInputs == { <<pTee, "M", "Black">>, <<pCap, "M", "Black">> }
TabQtyArgs == {0, 1}

\* Cart.init() in tab t
TabInit(t) ==
    /\ tabs[t].phase = "constructed"
    /\ \E ld \in {load(tabs[t].items, storage, TRUE)} :
         /\ tabs' = [tabs EXCEPT ![t] =
                       [items |-> ld.items,
                        cartCount |-> updateCartCount(ld.items, tabs[t].cartCount).count,
                        phase |-> "ready", synced |-> FALSE, wrote |-> FALSE]]
         /\ tabLog' = [last |-> t, wrote |-> FALSE]
    /\ UNCHANGED <<cartVars, productsVars, parserVars>>

\* the state after a call in tab t with outcome o; a storage write is let fail
\* only in a tab whose earlier mutation was written
TabApply(t, op, outcome) ==
    \E o \in {outcome} :
        /\ Explored(o.items)
        /\ o.writeFailed => tabs[t].synced
        /\ tabs' = [tabs EXCEPT ![t] =
                      [items |-> o.items, cartCount |-> o.count, phase |-> "ready",
                       synced |-> IF o.applied THEN ~o.writeFailed ELSE tabs[t].synced,
                       wrote |-> tabs[t].wrote \/ (o.applied /\ ~o.writeFailed)]]
        /\ storage' = o.storage
        /\ tabLog' = [last |-> t, wrote |-> o.applied /\ ~o.threw /\ ~o.writeFailed]
        /\ UNCHANGED <<items, cartCount, toast, result, unsaved, phase,
                       productsVars, parserVars>>

TabAdd(t) ==
    /\ tabs[t].phase = "ready"
    /\ \E in \in TabAddInputs, writeOk \in BOOLEAN :
         TabApply(t, "add", add(tabs[t].items, storage, tabs[t].cartCount,
                                in[1], in[2], in[3], 1, writeOk))

TabRemove(t) ==
    /\ tabs[t].phase = "ready"
    /\ \E index \in IndexArgs(tabs[t].items), writeOk \in BOOLEAN :
         TabApply(t, "remove", remove(tabs[t].items, storage, tabs[t].cartCount,
                                      index, writeOk))

TabUpdateQuantity(t) ==
    /\ tabs[t].phase = "ready"
    /\ \E index \in IndexArgs(tabs[t].items), quantity \in TabQtyArgs,
          writeOk \in BOOLEAN :
         TabApply(t, "updateQuantity",
                  updateQuantity(tabs[t].items, storage, tabs[t].cartCount,
                                 index, quantity, writeOk))

TabClear(t) ==
    /\ tabs[t].phase = "ready"
    /\ \E writeOk \in BOOLEAN :
         TabApply(t, "clear", clear(tabs[t].items, storage, tabs[t].cartCount, writeOk))

(***************************************************************************)
(* Specifications                                                          *)
(***************************************************************************)
\* the cart store, the catalog untouched
Init == CartInitState /\ ProductsInitState /\ ParserIdle /\ TabsIdle

Spec == Init /\ [][Next]_vars

\* the catalog loader, the cart untouched
CatalogInit ==
    /\ items = Arr(<<>>)
    /\ storage = absent
    /\ cartCount = 0
    /\ toast = <<>>
    /\ result = NoCall
    /\ unsaved = FALSE
    /\ phase = "constructed"
    /\ ProductsInitState
    /\ ParserIdle
    /\ TabsIdle

CatalogNext ==
    \E c \in Calls :
        \/ FetchCall(c)
        \/ FetchSettled(c)
        \/ TextSettled(c)

CatalogSpec == CatalogInit /\ [][CatalogNext]_vars

\* the CSV parser, the cart and the catalog untouched
ParserInit ==
    /\ items = Arr(<<>>)
    /\ storage = absent
    /\ cartCount = 0
    /\ toast = <<>>
    /\ result = NoCall
    /\ unsaved = FALSE
    /\ phase = "constructed"
    /\ ProductsInitState
    /\ csvInput \in ParserInputs(MaxLineLen, MaxFeedLines, MaxUrlLen)
    /\ parsed = NotParsed
    /\ TabsIdle

ParserNext == ParseLine \/ ParseSheet \/ ResolveImage

ParserSpec == ParserInit /\ [][ParserNext]_vars

\* two tabs over one slot, the single-tab cart, the catalog and the parser
\* untouched
TabsInit ==
    /\ items = Arr(<<>>)
    /\ storage \in {absent, JSONText("array", <<>>)}
    /\ cartCount = 0
    /\ toast = <<>>
    /\ result = NoCall
    /\ unsaved = FALSE
    /\ phase = "constructed"
    /\ ProductsInitState
    /\ ParserIdle
    /\ TabsIdle

TabsNext ==
    \E t \in Tabs :
        \/ TabInit(t)
        \/ TabAdd(t)
        \/ TabRemove(t)
        \/ TabUpdateQuantity(t)
        \/ TabClear(t)

TabsSpec == TabsInit /\ [][TabsNext]_vars

(***************************************************************************)
(* Properties of the cart store                                            *)
(***************************************************************************)
Mutations == {"add", "remove", "updateQuantity", "clear"}

\* the last call was a mutation that took effect and returned
Mutated == result.op \in Mutations /\ result.applied /\ ~result.threw

\* the (id, size, color) of a line
Triple(item) == <<Prop(item, "id"), Prop(item, "size"), Prop(item, "color")>>

\* the lines of arr whose triple is that of the add input in
Matching(arr, in) == {i \in 1 .. Len(arr) : Triple(arr[i]) = <<in[1].id, in[2], in[3]>>}

\* C1: the cart never holds two lines with the same (id, size, color), and in
\* every reachable cart an add whose triple matches a line keeps the number
\* of lines and raises that line's quantity by the amount given.
C1_OneLinePerTriple ==
    IsArray(items) =>
        /\ \A i, j \in 1 .. Len(items.arr) :
              Triple(items.arr[i]) = Triple(items.arr[j]) => i = j
        /\ \A in \in AddInputs, q \in QtyArgs, writeOk \in BOOLEAN :
              \A i \in Matching(items.arr, in) :
                 LET o == add(items, storage, cartCount, in[1], in[2], in[3], q, writeOk)
                 IN /\ Len(o.items.arr) = Len(items.arr)
                    /\ o.items.arr[i].quantity = items.arr[i].quantity + q

\* an add on a line that already existed has returned: it gave back the first
\* of two lines
C1_Witness ==
    /\ result.op = "add" /\ Mutated
    /\ Len(items.arr) = 2
    /\ result.ret = <<items.arr[1]>>

\* C2 (as claimed): every line item has a quantity that is a positive integer.
C2_QuantitiesPositive ==
    IsArray(items) => \A i \in 1 .. Len(items.arr) : items.arr[i].quantity > 0

\* C3: when a mutation that took effect returns and its storage write
\* succeeded, the slot holds the serialization of the in-memory collection.
C3_PersistedOnReturn ==
    (Mutated /\ ~result.writeFailed) => storage = JSONstringify(items)

\* an updateQuantity with a positive quantity has been persisted
C3_Witness ==
    /\ result.op = "updateQuantity" /\ Mutated /\ ~result.writeFailed
    /\ Len(items.arr) = 2
    /\ toast = <<>>

\* C4: a call whose storage write failed did not raise, and add still
\* returned one line, which is a line of the cart.
C4_WriteFailureCaught ==
    result.writeFailed =>
        /\ ~result.threw
        /\ result.op = "add" =>
              /\ Len(result.ret) = 1
              /\ \E i \in 1 .. Len(items.arr) : items.arr[i] = result.ret[1]

\* an add whose write failed has returned
C4_Witness == result.op = "add" /\ result.writeFailed /\ Len(items.arr) = 2

\* C5 (as claimed): a call whose storage write fails leaves the in-memory
\* collection as it was before the call.
C5_WriteFailureIsNoOp == [][result'.writeFailed => items' = items]_vars

\* C6 (as claimed): after every mutation that took effect, the counter badge
\* equals getItemCount(), the storage write having failed or not.
C6_CounterRefreshed == Mutated => cartCount = getItemCount(items).value

\* the values read from the nine keys of two lines agree
SameLine(a, b) ==
    \A k \in {"id", "name", "price", "shipping", "image", "category", "size",
              "color", "quantity"} : Prop(a, k) = Prop(b, k)

\* two collections have the same lines in the same order
SameCollection(a, b) ==
    /\ a.type = b.type
    /\ Len(a.arr) = Len(b.arr)
    /\ \A i \in 1 .. Len(a.arr) : SameLine(a.arr[i], b.arr[i])

\* C7: a load() whose read succeeds, run right after a mutation whose write
\* succeeded, rebuilds the same lines in the same order, every one of the nine
\* keys reading the same value.
C7_RoundTrip ==
    [][(result'.op = "load" /\ ~result'.readFailed /\ Mutated /\ ~result.writeFailed)
       => SameCollection(items', items)]_vars

\* a cart of two lines has been reloaded, one of them without image and category
C7_Witness ==
    /\ result.op = "load" /\ ~result.readFailed
    /\ Len(items.arr) = 2
    /\ \E i \in 1 .. 2 : "image" \notin DOMAIN items.arr[i]

\* the slot is missing, empty or not JSON
Unreadable(st) == st.kind \in {"absent", "empty", "garbage"}

\* C8: after init() or load() found the slot missing or unparsable, or could
\* not read it, nothing was raised and the cart is the empty collection.
C8_LoadFailsSoft ==
    (result.op \in {"init", "load"} /\ (result.readFailed \/ Unreadable(storage))) =>
        /\ ~result.threw
        /\ items = Arr(<<>>)
        /\ isEmpty(items) = [threw |-> FALSE, value |-> TRUE]
        /\ getItemCount(items) = [threw |-> FALSE, value |-> 0]

\* init() or load() has run over a slot that is not JSON, or could not read a
\* slot that holds lines
C8_Witness ==
    /\ result.op \in {"init", "load"}
    /\ storage = garbage \/ (result.readFailed /\ storage.arr # <<>>)

\* C9 (as claimed): once init() has run, whatever the slot held, init() did
\* not raise and none of the cart operations raises.
C9_NoOperationThrows ==
    phase = "ready" =>
        /\ ~result.threw
        /\ ~getItemCount(items).threw
        /\ ~getSubtotal(items).threw
        /\ ~isEmpty(items).threw
        /\ ~prepareOrderData(items, "customer").threw
        /\ \A in \in AddInputs, q \in QtyArgs :
              ~add(items, storage, cartCount, in[1], in[2], in[3], q, TRUE).threw
        /\ \A index \in IndexArgs(items), q \in QtyArgs :
              /\ ~remove(items, storage, cartCount, index, TRUE).threw
              /\ ~updateQuantity(items, storage, cartCount, index, q, TRUE).threw

\* the zero-based indexes of the lines of a cart
LineIndexes(v) == 0 .. Len(v.arr) - 1

\* C17: on a cart of lines, updateQuantity(i, q) with i in bounds and q <= 0
\* leaves what remove(i) leaves: one line fewer, getItemCount() lower by the
\* quantity line i had, the other lines as they were and in their order; with
\* q > 0 it leaves the same number of lines, line i with quantity q and
\* nothing else of it changed, every other line as it was.
C17_UpdateQuantity ==
    IsArray(items) =>
        \A index \in LineIndexes(items), q \in QtyArgs, writeOk \in BOOLEAN :
            LET o == updateQuantity(items, storage, cartCount, index, q, writeOk)
                old == items.arr
                new == o.items.arr
            IN IF q <= 0
               THEN /\ o = remove(items, storage, cartCount, index, writeOk)
                    /\ Len(new) = Len(old) - 1
                    /\ getItemCount(o.items).value
                         = getItemCount(items).value - old[index + 1].quantity
                    /\ \A j \in 1 .. Len(new) :
                          new[j] = old[IF j <= index THEN j ELSE j + 1]
               ELSE /\ Len(new) = Len(old)
                    /\ new[index + 1].quantity = q
                    /\ \A k \in DOMAIN old[index + 1] \ {"quantity"} :
                          new[index + 1][k] = old[index + 1][k]
                    /\ \A j \in 1 .. Len(old) : j # index + 1 => new[j] = old[j]

\* updateQuantity with a quantity of zero or less has removed one of two
\* lines and announced it
C17_Witness ==
    /\ result.op = "updateQuantity" /\ Mutated
    /\ Len(items.arr) = 1
    /\ toast # <<>> /\ toast[2] = "removed from cart"

\* C18: on a cart of lines, remove and updateQuantity with an index below 0
\* or at or past the number of lines leave the collection, the slot and the
\* counter as they were, emit no notification and raise nothing.
C18_InvalidIndexIgnored ==
    IsArray(items) =>
        \A index \in {0 - 2, 0 - 1, Len(items.arr), Len(items.arr) + 1},
           q \in QtyArgs, writeOk \in BOOLEAN :
            \A o \in {remove(items, storage, cartCount, index, writeOk),
                      updateQuantity(items, storage, cartCount, index, q, writeOk)} :
                /\ o.items = items
                /\ o.storage = storage
                /\ o.count = cartCount
                /\ o.toast = <<>>
                /\ ~o.threw

\* remove or updateQuantity has been called on a cart of two lines with an
\* index that is not one of its lines, and has returned
C18_Witness ==
    /\ result.op \in {"remove", "updateQuantity"}
    /\ ~result.applied /\ ~result.threw
    /\ Len(items.arr) = 2
    /\ toast = <<>>

\* the keys of a snapshot entry
SnapshotKeys == {"id", "name", "size", "color", "quantity", "price"}

\* C19: a call of prepareOrderData leaves the collection, the slot and the
\* counter as they were; when it returns, its payload has one entry per line,
\* in order, with exactly the line's id, name, size, color, quantity and
\* price, and its subtotal, shipping and total are getSubtotal(),
\* getShipping() and getTotal() of that cart.
C19_OrderDataIsPure ==
    [][result'.op = "prepareOrderData" =>
          /\ items' = items /\ storage' = storage /\ cartCount' = cartCount
          /\ ~result'.threw =>
                LET order == result'.ret[1]
                IN /\ Len(order.items) = Len(items.arr)
                   /\ \A i \in 1 .. Len(items.arr) :
                         /\ DOMAIN order.items[i] = SnapshotKeys
                         /\ \A k \in SnapshotKeys :
                               order.items[i][k] = Prop(items.arr[i], k)
                   /\ order.subtotal = getSubtotal(items).value
                   /\ order.shipping = getShipping(items).value
                   /\ order.total = getTotal(items).value]_vars

\* an order payload has been built from a cart of two lines
C19_Witness ==
    /\ result.op = "prepareOrderData" /\ ~result.threw
    /\ Len(items.arr) = 2
    /\ Len(result.ret[1].items) = 2
    /\ result.ret[1].total > 0

RECURSIVE SumTo(_, _)
\* f[1] + ... + f[n]
SumTo(f, n) == IF n = 0 THEN 0 ELSE f[n] + SumTo(f, n - 1)

\* the sum over the lines of arr of k1 times k2
SumOfLines(arr, k1, k2) == SumTo([i \in 1 .. Len(arr) |-> arr[i][k1] * arr[i][k2]], Len(arr))

\* the sum over the lines of arr of the quantity
SumOfQuantities(arr) == SumTo([i \in 1 .. Len(arr) |-> arr[i].quantity], Len(arr))

\* C20: on a cart of lines, getItemCount() is the sum of the quantities,
\* getSubtotal() the sum of price times quantity, getShipping() the sum of
\* shipping times quantity, getTotal() their sum, and isEmpty() is true
\* exactly when there is no line; after clear() the four are 0 and isEmpty()
\* is true.
C20_Totals ==
    /\ IsArray(items) =>
          /\ getItemCount(items) = [threw |-> FALSE, value |-> SumOfQuantities(items.arr)]
          /\ getSubtotal(items) =
                [threw |-> FALSE, value |-> SumOfLines(items.arr, "price", "quantity")]
          /\ getShipping(items) =
                [threw |-> FALSE, value |-> SumOfLines(items.arr, "shipping", "quantity")]
          /\ getTotal(items) =
                [threw |-> FALSE,
                 value |-> getSubtotal(items).value + getShipping(items).value]
          /\ isEmpty(items) = [threw |-> FALSE, value |-> Len(items.arr) = 0]
    /\ (result.op = "clear" /\ ~result.threw) =>
          /\ getItemCount(items).value = 0 /\ getSubtotal(items).value = 0
          /\ getShipping(items).value = 0 /\ getTotal(items).value = 0
          /\ isEmpty(items) = [threw |-> FALSE, value |-> TRUE]

\* a cart of two lines, one of them with shipping, totals 875
C20_Witness ==
    /\ Len(items.arr) = 2
    /\ getSubtotal(items).value = 800 /\ getShipping(items).value = 75
    /\ getTotal(items).value = 875 /\ getItemCount(items).value = 2
    /\ ~isEmpty(items).value

\* what add may be handed: the products of the model with the changed one
AllAddInputs == AddInputs \cup {<<pTeeRepriced, "M", "Black">>}

\* the keys of a line that add takes from the product
ProductKeys == {"name", "price", "shipping", "image", "category"}

\* C24: on a cart of lines, add on a triple that has a line leaves the number
\* and order of lines, every other line and every key of that line but its
\* quantity as they were, whatever the product passed now carries; add on a
\* new triple appends one line built from the product and leaves the lines
\* before it as they were; either way the line returned is the resulting line.
C24_LineIsSnapshot ==
    IsArray(items) =>
        \A in \in AllAddInputs, q \in QtyArgs, writeOk \in BOOLEAN :
            LET o == add(items, storage, cartCount, in[1], in[2], in[3], q, writeOk)
                old == items.arr
                new == o.items.arr
                hits == Matching(old, in)
            IN IF hits # {}
               THEN /\ Len(new) = Len(old)
                    /\ \A i \in hits :
                          /\ new[i] = [old[i] EXCEPT !.quantity = @ + q]
                          /\ \A k \in ProductKeys : Prop(new[i], k) = Prop(old[i], k)
                          /\ o.ret = <<new[i]>>
                    /\ \A j \in 1 .. Len(old) : j \notin hits => new[j] = old[j]
               ELSE /\ Len(new) = Len(old) + 1
                    /\ SubSeq(new, 1, Len(old)) = old
                    /\ Triple(new[Len(new)]) = <<in[1].id, in[2], in[3]>>
                    /\ new[Len(new)].quantity = q
                    /\ new[Len(new)].name = in[1].name
                    /\ new[Len(new)].price = in[1].price
                    /\ o.ret = <<new[Len(new)]>>

\* add has been handed the changed product for a triple that had a line, and
\* has returned that line with the name and price it was created with
C24_Witness ==
    /\ result.op = "add" /\ Mutated
    /\ toast = <<pTeeRepriced.name, "added to cart">>
    /\ result.ret[1].name = pTee.name /\ result.ret[1].price = pTee.price
    /\ result.ret[1].quantity > 0

(***************************************************************************)
(* Properties of the catalog loader                                        *)
(***************************************************************************)
\* the call saw its request rejected, a failure status, or its body unreadable
FetchFailed(call) == call.response \in {"error", "notOk"} \/ call.text = "error"

\* C10: every call of fetch() that has ended resolved rather than rejected;
\* it resolved to the demo products if its request failed, was answered with
\* a failure status or its body could not be read, and to the products parsed
\* from the body it read otherwise.
C10_LoadNeverRaises ==
    \A c \in Calls :
        calls[c].pc = "done" =>
            /\ ~calls[c].rejected
            /\ FetchFailed(calls[c]) => calls[c].ret = getDemoProducts
            /\ calls[c].text = "read" => calls[c].ret = parseCSV(calls[c].body)

\* one call has fallen back after a failure status, another has returned the
\* two products of the feed it read
C10_Witness ==
    \E c, d \in Calls :
        /\ calls[c].pc = "done" /\ calls[c].response = "notOk"
        /\ calls[d].pc = "done" /\ calls[d].text = "read" /\ Len(calls[d].ret) = 2

\* call c of fetch() starts in this step
Starts(c) == calls[c].pc = "idle" /\ calls'[c].pc # "idle"

\* an earlier call has ended after reading the body of a successful response
SomeCallSucceeded == \E d \in Calls : calls[d].pc = "done" /\ calls[d].text = "read"

\* an earlier call has ended in the catch block and returned the demo products
SomeCallFellBack == \E d \in Calls : calls[d].pc = "done" /\ FetchFailed(calls[d])

\* C11 (as claimed): once a call has ended with a successful response, however
\* many products its feed gave, a call that starts later issues no request and
\* returns the list held in Products.items.
C11_CachedAfterSuccess ==
    [][\A c \in Calls :
          (Starts(c) /\ SomeCallSucceeded) =>
              /\ requests' = requests
              /\ calls'[c].pc = "done"
              /\ calls'[c].ret = productsItems]_vars

\* C12 (as claimed): once a call has fallen back to the demo products, a call
\* that starts later issues no request and returns the demo products.
C12_NoRetryAfterFallback ==
    [][\A c \in Calls :
          (Starts(c) /\ SomeCallFellBack) =>
              /\ requests' = requests
              /\ calls'[c].pc = "done"
              /\ calls'[c].ret = getDemoProducts]_vars

\* C13 (as claimed): while no call of fetch() has ended, however many have
\* started, at most one network request has been issued.
C13_OneRequestWhileOverlapping ==
    (\A c \in Calls : calls[c].pc # "done") => requests <= 1

(***************************************************************************)
(* Properties of the CSV parser                                            *)
(***************************************************************************)
\* a sheet has been parsed
SheetParsed == csvInput.kind = "csv" /\ parsed.kind = "csv"

\* C14 (as claimed): the data row of a sheet is accepted exactly when its id
\* and its name are non-empty and its price cell is not missing, a price of
\* zero included.
C14_AcceptedRows ==
    SheetParsed =>
        (Len(parsed.products) = 1
           <=> /\ csvInput.row.id # <<>>
               /\ csvInput.row.name # <<>>
               /\ csvInput.row.price # <<>>)

\* the field a cell is read as: without its quotes and trimmed
FieldValue(cell) == Trim(SelectSeq(cell, LAMBDA c : c # QUOTE))

\* the flag a field stands for: trimmed and lower-cased it is yes, true or 1
FlagOf(field) == ToLowerCase(Trim(field)) \in {Str("yes"), Str("true"), Str("1")}

\* C15: in an accepted row, in_stock and featured are true exactly when the
\* field, trimmed and lower-cased, is yes, true or 1; Yes, TRUE and 1 give
\* true, the empty field, no and 2 give false.
C15_FlagCoercion ==
    (SheetParsed /\ parsed.products # <<>>) =>
        LET product == parsed.products[1]
            row == csvInput.row
        IN /\ product[K_in_stock] = FlagOf(FieldValue(row.stock))
           /\ product[K_featured] = FlagOf(FieldValue(row.featured))
           /\ row.stock \in {Str("Yes"), Str("TRUE"), Str("1")} => product[K_in_stock] = TRUE
           /\ row.stock \in {<<>>, Str("no"), Str("2")} => product[K_in_stock] = FALSE
           /\ row.featured \in {Str("Yes"), Str("TRUE"), Str("1")} => product[K_featured] = TRUE
           /\ row.featured \in {<<>>, Str("no"), Str("2")} => product[K_featured] = FALSE

\* a row has been accepted whose in_stock was TRUE between blanks and whose
\* featured was 2
C15_Witness ==
    /\ SheetParsed /\ parsed.products # <<>>
    /\ csvInput.row.stock = <<SP, "TRUE", SP>> /\ parsed.products[1][K_in_stock] = TRUE
    /\ csvInput.row.featured = Str("2") /\ parsed.products[1][K_featured] = FALSE

\* the positions of the commas of a line that have an even number of double
\* quotes before them
OutsideCommas(line) ==
    {i \in 1 .. Len(line) :
        /\ line[i] = COMMA
        /\ Cardinality({j \in 1 .. i - 1 : line[j] = QUOTE}) % 2 = 0}

\* the position of the k-th of these commas; 0 for k = 0, one past the end of
\* the line when there are fewer than k
SeparatorAt(line, k) ==
    IF k = 0 THEN 0
    ELSE IF k > Cardinality(OutsideCommas(line)) THEN Len(line) + 1
    ELSE CHOOSE i \in OutsideCommas(line) :
            Cardinality({j \in OutsideCommas(line) : j < i}) = k - 1

\* the text between the (k-1)-th and the k-th of these commas
Segment(line, k) ==
    SubSeq(line, SeparatorAt(line, k - 1) + 1, SeparatorAt(line, k) - 1)

\* C16: a line is split at the commas that have an even number of double
\* quotes before them and nowhere else: the fields are one more than these
\* commas, each field is the text between two of them without its double
\* quotes (trimmed), and a,"b,c",d gives a / b,c / d.
C16_QuoteAwareSplit ==
    (csvInput.kind = "line" /\ parsed.kind = "line") =>
        /\ Len(parsed.fields) = 1 + Cardinality(OutsideCommas(csvInput.text))
        /\ \A k \in 1 .. Len(parsed.fields) :
              parsed.fields[k] = FieldValue(Segment(csvInput.text, k))
        /\ csvInput.text = ExampleLine =>
              parsed.fields = << <<"a">>, <<"b", COMMA, "c">>, <<"d">> >>

\* the line a,"b,c",d has been parsed into three fields
C16_Witness ==
    /\ csvInput.text = ExampleLine
    /\ parsed.kind = "line" /\ Len(parsed.fields) = 3
    /\ parsed.fields[2] = <<"b", COMMA, "c">>

\* the data rows among the lines of a listing, in their order
DataLinesOf(lines) == SelectSeq(lines, LAMBDA line : line \in DataRows)

\* the keys of a product of a listing: one per column of its header
ListingKeys == {K_id, K_name, K_price, K_shipping, K_category}

UrlResolved == csvInput.kind = "url" /\ parsed.kind \in {"url", "threw"}

\* none of the three patterns finds an identifier in the reference
NoIdentifier(url) ==
    ~fileMatch(url).matched /\ ~openMatch(url).matched /\ ~ucMatch(url).matched

\* C21: the image resolver does not raise; a reference without the Drive host,
\* or in which no pattern finds an identifier, comes back as it was; a Drive
\* reference .../file/d/ABC123/view, with or without a query that has no id,
\* comes back as the thumbnail URL of ABC123 at width 800; and when several
\* patterns match, the identifier is that of /uc?...id= before that of
\* [?&]id= before that of /file/d/.
C21_ImageResolver ==
    UrlResolved =>
        LET url == csvInput.text
        IN /\ parsed.kind # "threw"
           /\ (~IncludesDrive(url) \/ NoIdentifier(url)) => parsed.url = url
           /\ url \in {<<DriveHost, FileD, FileId, SlashView>>,
                       <<DriveHost, FileD, FileId, SlashView, QMark, LetterU>>} =>
                 parsed.url = <<"https://drive.google.com/thumbnail?id=", FileId, "&sz=w800">>
           /\ (IncludesDrive(url) /\ ~NoIdentifier(url)) =>
                 parsed.url =
                    Thumbnail(IF ucMatch(url).matched THEN ucMatch(url).group
                              ELSE IF openMatch(url).matched THEN openMatch(url).group
                              ELSE fileMatch(url).group)

\* the reference .../file/d/ABC123/view has been resolved to a thumbnail URL
C21_Witness ==
    /\ UrlResolved
    /\ csvInput.text = <<DriveHost, FileD, FileId, SlashView>>
    /\ parsed.url = Thumbnail(<<FileId>>)

(***************************************************************************)
(* Properties of two tabs over one slot                                    *)
(***************************************************************************)
\* the last call was made in tab t and was a mutation that took effect,
\* returned and was written
TabWrote(t) == tabLog.last = t /\ tabLog.wrote

\* the (id, size, color) triples of the lines of a sequence
TriplesOf(arr) == {Triple(arr[i]) : i \in 1 .. Len(arr)}

\* C22: when a mutation made in a tab has been written, the slot holds
\* exactly that tab's collection, so a line that only the other tab holds is
\* not in the slot; and while the other tab has written nothing, the slot
\* holds the collection of a tab whose last mutation was written.
C22_LastWriterWins ==
    \A t \in Tabs :
        /\ TabWrote(t) =>
              /\ storage = JSONstringify(tabs[t].items)
              /\ \A tr \in TriplesOf(tabs[Other(t)].items.arr) :
                    tr \notin TriplesOf(tabs[t].items.arr) =>
                        tr \notin TriplesOf(storage.arr)
        /\ (tabs[t].synced /\ ~tabs[Other(t)].wrote) =>
              storage = JSONstringify(tabs[t].items)

\* tab A added a line and wrote it, then tab B wrote a collection without
\* it: the slot holds tab B's line alone
C22_Witness ==
    /\ TabWrote("B")
    /\ tabs["A"].synced /\ tabs["A"].wrote
    /\ Len(tabs["A"].items.arr) = 1 /\ Len(tabs["B"].items.arr) = 1
    /\ Triple(tabs["A"].items.arr[1]) \notin TriplesOf(storage.arr)
    /\ storage = JSONstringify(tabs["B"].items)

(***************************************************************************)
(* More properties of the catalog loader                                   *)
(***************************************************************************)
\* a call has read a feed and its products, at least one, are installed
FeedInstalled == loaded /\ productsItems # <<>> /\ productsItems # getDemoProducts

\* C23 (as claimed): once a call has read a feed and installed its products,
\* no later step installs the demo products in their place, and the category
\* list is always that of the installed products.
C23_CatalogImmutable ==
    [][FeedInstalled =>
          /\ productsItems' # getDemoProducts
          /\ categories' = extractCategories(productsItems')]_vars

====
